---- MODULE Spec2Model ----
(***************************************************************************)
(* Streaming speech translation pipeline (naipunyaailabs/sts).             *)
(*                                                                         *)
(* SpeechTranslationPipeline (main_pipeline.py) chains three workers:      *)
(*   SpeechToText (stt_module.py)             audio blocks -> English text *)
(*   EnglishToRussianTranslator (translation_module.py)  -> Russian text   *)
(*   RussianTextToSpeech (tts_module.py)                 -> audio samples  *)
(* Every worker is a Python thread polling its own queue; the completion   *)
(* callback of one stage runs in that stage's worker thread and submits to *)
(* the next stage.  The main thread calls start(), stop(), get_status().   *)
(*                                                                         *)
(* One action is one step of one thread.  Consecutive statements are put   *)
(* in one step only where at most one of them touches state another thread *)
(* reads or writes.                                                        *)
(***************************************************************************)
EXTENDS Integers, Sequences, FiniteSets, TLC

(***************************************************************************)
(* Bounds of the model.                                                    *)
(***************************************************************************)
\* audio blocks the input device delivers in one run of Spec
MaxBlocks == 1
\* audio blocks the input device delivers in one run of RaceSpec
MaxRaceBlocks == 2
\* calls of start() that start the pipeline in one run
MaxStarts == 2
\* largest millisecond reading of time.time() in one run
MaxMillis == 1
\* candidates handed directly to _on_speech_to_text in GateSpec
MaxDeliveries == 2
\* HTTP requests sent to the service in one run of ApiSpec
MaxRequests == 3
\* candidates handed to _on_speech_to_text one after the other in SequenceSpec
MaxSequence == 3

(***************************************************************************)
(* Text.  A str is a sequence of one-character strings.                    *)
(***************************************************************************)
Whitespace == {" ", "\t", "\n"}

\* str.lower() on one character
LowerChar(c) ==
  CASE c = "A" -> "a" [] c = "B" -> "b" [] c = "H" -> "h" [] c = "K" -> "k"
    [] c = "N" -> "n" [] c = "O" -> "o" [] c = "T" -> "t" [] c = "U" -> "u"
    [] c = "V" -> "v" [] c = "W" -> "w" [] c = "Y" -> "y" [] OTHER -> c

RECURSIVE lstrip(_)
lstrip(s) ==
  IF s # <<>> /\ Head(s) \in Whitespace THEN lstrip(Tail(s)) ELSE s

RECURSIVE rstrip(_)
rstrip(s) ==
  IF s # <<>> /\ s[Len(s)] \in Whitespace
  THEN rstrip(SubSeq(s, 1, Len(s) - 1))
  ELSE s

\* str.strip(): leading and trailing whitespace removed
strip(s) == rstrip(lstrip(s))

RECURSIVE lower(_)
\* str.lower(): every cased character in lower case
lower(s) == IF s = <<>> THEN <<>> ELSE <<LowerChar(Head(s))>> \o lower(Tail(s))

ThankYou == <<"t", "h", "a", "n", "k", " ", "y", "o", "u">>
ThankYouDot == ThankYou \o <<".">>

\* the set literal of main_pipeline.py line 85
Denylist == {ThankYou, ThankYouDot}

\* _on_speech_to_text, lines 80-90, without the repeat check
AcceptsRepeats(text, last) ==
  LET cleaned == strip(text)
  IN  cleaned # <<>> /\ lower(cleaned) \notin Denylist

\* _on_speech_to_text, lines 80-90, comparing with the denylist case-sensitively
AcceptsCased(text, last) ==
  LET cleaned == strip(text)
  IN  cleaned # <<>> /\ cleaned \notin Denylist /\ cleaned # strip(last)

\* _on_speech_to_text, lines 80-90, testing the untrimmed text for emptiness
AcceptsBlank(text, last) ==
  LET cleaned == strip(text)
  IN  text # <<>> /\ lower(cleaned) \notin Denylist /\ cleaned # strip(last)

\* _on_speech_to_text, lines 80-90: TRUE iff none of the three early returns
\* is taken for candidate `text` when self.last_text is `last`
Accepts(text, last) ==
  LET cleaned == strip(text)
  IN  /\ cleaned # <<>>
      /\ lower(cleaned) \notin Denylist
      /\ cleaned # strip(last)

(***************************************************************************)
(* The external models.  Their outputs are inputs of the pipeline: each is *)
(* drawn from a small set.                                                 *)
(***************************************************************************)
\* what a loud window can hold: nothing recognisable, or one of two phrases
Spoken == {<<>>, <<"a">>, <<"b">>}

\* model.transcribe(...)["text"] for a window in which `said` was spoken:
\* Whisper puts a space before the text
WhisperText(said) == IF said = <<>> THEN <<" ">> ELSE <<" ">> \o said

\* the letters of English text
Letters ==
  {"a", "b", "c", "d", "e", "f", "g", "h", "i", "j", "k", "l", "m", "n", "o",
   "p", "q", "r", "s", "t", "u", "v", "w", "x", "y", "z",
   "A", "B", "H", "K", "N", "O", "T", "U", "V", "W", "Y"}

\* the Cyrillic letters of Russian text, each named by its code point
Cyrillic == {"U+0430", "U+0431", "U+044F"}

\* one character of a translation: Russian is written in Cyrillic letters,
\* digits and punctuation stay what they are
MarianChar(c) ==
  CASE c = "a" -> "U+0430" [] c = "b" -> "U+0431"
    [] c \in Letters \ {"a", "b"} -> "U+044F" [] OTHER -> c

\* what tokenizer.decode can give for the English `text`: nothing but a
\* space, or the Russian text followed by a space
MarianTexts(text) ==
  {<<" ">>, [i \in 1 .. Len(text) |-> MarianChar(text[i])] \o <<" ">>}

\* EnglishToRussianTranslator.translate: what a call can do, an exception of
\* the model or a returned text
TranslateOutcomes(text) ==
  IF strip(text) = <<>>
  THEN {[raised |-> FALSE, text |-> <<>>]}
  ELSE {[raised |-> TRUE, text |-> <<>>]}
         \cup {[raised |-> FALSE, text |-> strip(out)] : out \in MarianTexts(text)}

\* RussianTextToSpeech.synthesize: the samples, or the empty array when the
\* text is blank or gTTS / ffmpeg fail (the exception is caught inside)
SynthesizeOutcomes(text) ==
  IF text = <<>> \/ strip(text) = <<>>
  THEN {<<>>}
  ELSE {<<>>, <<"pcm">> \o text}

\* SpeechToText.CHUNK_SIZE, counted in device blocks: one block fills a window
CHUNK_SIZE == 1

\* the amplitude below which _process_audio skips a block, in units of 0.01
EnergyFloor == 2

(***************************************************************************)
(* State.                                                                  *)
(***************************************************************************)
VARIABLES
  \* SpeechTranslationPipeline
  is_running, request_counter, last_text,
  stt_queue, translation_queue, tts_queue,
  \* SpeechToText
  is_recording, stream_active, audio_queue, stt_thr,
  \* EnglishToRussianTranslator
  is_translating, translation_thread, translator_translation_queue, tr_thr,
  \* RussianTextToSpeech
  is_speaking, tts_thread, tts_tts_queue, tts_thr,
  \* the main thread
  mainpc, lastCall,
  \* the input device
  nblocks, block_limit,
  \* history
  issued, sub_translation, sub_tts, handed_off, recognised,
  stop_queued, phase, counter_before_stop, gate_log,
  \* a call of SpeechTranslationPipeline.process_file
  file_call,
  \* api_app: the module globals, the requests in flight, what was done
  API_KEY, pipeline, built, serving, hits, requests, api_log

pipelineVars == <<is_running, request_counter, last_text,
                  stt_queue, translation_queue, tts_queue>>
sttVars == <<is_recording, stream_active, audio_queue, stt_thr>>
translatorVars == <<is_translating, translation_thread,
                    translator_translation_queue, tr_thr>>
ttsVars == <<is_speaking, tts_thread, tts_tts_queue, tts_thr>>
mainVars == <<mainpc, lastCall>>
historyVars == <<issued, sub_translation, sub_tts, handed_off, recognised,
                 stop_queued, phase, counter_before_stop, gate_log>>

apiVars == <<API_KEY, pipeline, built, serving, hits, requests, api_log>>

vars == <<pipelineVars, sttVars, translatorVars, ttsVars, mainVars, nblocks,
          block_limit, historyVars, file_call, apiVars>>

\* thread identities: start_recording makes at most one thread per call,
\* translate_async and synthesize_async at most one per submitted item
Largest(S) == CHOOSE n \in S : \A m \in S : m <= n
MaxUtterances == Largest({MaxBlocks, MaxRaceBlocks, MaxDeliveries})
SttThreads == 1 .. MaxStarts
Requests == 1 .. MaxRequests
TrThreads == 1 .. MaxUtterances
TtsThreads == 1 .. MaxUtterances

NoId == [seq |-> 0, ms |-> 0]
NoItem == [text |-> <<>>, request_id |-> NoId, utt |-> 0]

SttIdle == [pc |-> "unborn", audio_buffer |-> <<>>, text |-> <<>>,
            cleaned |-> <<>>, loaded |-> 0, request_id |-> NoId, utt |-> 0,
            direct |-> FALSE]
TrIdle == [pc |-> "unborn", item |-> NoItem, translated_text |-> <<>>]
TtsIdle == [pc |-> "unborn", item |-> NoItem, audio_data |-> <<>>]

\* the identity of the next thread to create (0 when the model has no more)
Unborn(thr, ids) ==
  IF \E t \in ids : thr[t].pc = "unborn"
  THEN CHOOSE t \in ids : thr[t].pc = "unborn" /\ \A u \in ids : u < t => thr[u].pc # "unborn"
  ELSE 0

Alive(th) == th.pc \notin {"unborn", "dead", "caller"}

\* Python's None
None == "<None>"

\* what process_file has in hand: its position, the phrase spoken in the file,
\* its three locals, what the call gave back to its caller (`result`), and
\* the stages that raised or produced nothing in this call (`failed`)
NoResult == [kind |-> "pending", english_text |-> <<>>, russian_text |-> <<>>,
             audio_samples |-> 0]
FileIdle == [pc |-> "idle", said |-> <<>>, english_text |-> <<>>,
             russian_text |-> <<>>, audio_data |-> <<>>, result |-> NoResult,
             failed |-> {}]

\* a request to /translate-audio before the client sends it: the connection
\* it holds until it is answered, whether its multipart body was received
\* and parsed into the UploadFile, the file the handler read, the TranslationPipeline it used,
\* what translate_audio_chunk returned and the response
NoBody == [size |-> 0, decodes |-> FALSE, sample_rate |-> 0, frames |-> 0,
           said |-> <<>>]
NoDict == [audio |-> <<>>, english_text |-> <<>>, russian_text |-> <<>>]
NoResponse == [status |-> 0, audio |-> <<>>, english_text |-> <<>>,
               russian_text |-> <<>>, processing_time |-> FALSE]
NoRequest == [pc |-> "unsent", conn |-> 0, uploaded |-> FALSE,
              body |-> NoBody, instance |-> 0,
              result |-> NoDict, response |-> NoResponse]

\* api_app as imported with STS_API_KEY unset or set to `key`: no pipeline yet,
\* the startup hook not yet run, no request counted by the limiter
Imported(key) ==
  /\ API_KEY = key /\ pipeline = 0 /\ built = 0 /\ serving = FALSE
  /\ hits = 0
  /\ requests = [r \in Requests |-> NoRequest]
  /\ api_log = <<>>

\* SpeechTranslationPipeline.__init__, and the three workers' __init__; the
\* device will deliver `limit` blocks, and the recognition threads are `thr`
Streaming(limit, thr) ==
  /\ is_running = FALSE /\ request_counter = 0 /\ last_text = <<>>
  /\ stt_queue = <<>> /\ translation_queue = <<>> /\ tts_queue = <<>>
  /\ is_recording = FALSE /\ stream_active = FALSE /\ audio_queue = <<>>
  /\ stt_thr = thr
  /\ is_translating = FALSE /\ translation_thread = 0
  /\ translator_translation_queue = <<>>
  /\ tr_thr = [t \in TrThreads |-> TrIdle]
  /\ is_speaking = FALSE /\ tts_thread = 0 /\ tts_tts_queue = <<>>
  /\ tts_thr = [t \in TtsThreads |-> TtsIdle]
  /\ mainpc = "idle" /\ lastCall = "none"
  /\ nblocks = 0 /\ block_limit = limit
  /\ issued = {} /\ sub_translation = {} /\ sub_tts = {} /\ handed_off = {}
  /\ recognised = [b \in 1 .. MaxUtterances |-> 0]
  /\ stop_queued = [stt |-> {}, translation |-> {}, tts |-> {}]
  /\ phase = "none" /\ counter_before_stop = 0 /\ gate_log = <<>>
  /\ file_call = FileIdle

\* the streaming program: api_app is not part of it
Constructed(limit, thr) == Streaming(limit, thr) /\ Imported(None)

Init == Constructed(MaxBlocks, [t \in SttThreads |-> SttIdle])

(***************************************************************************)
(* The main thread: SpeechTranslationPipeline.start / stop / get_status.   *)
(***************************************************************************)
\* the main thread is between two calls and makes one; lastCall keeps the
\* call and, for start and stop, whether its guard returned at once
Call(name) ==
  /\ mainpc = "idle"
  /\ lastCall' = name

\* SpeechToText.start_recording: the flag, a new processing thread, the stream
start_recording ==
  IF is_recording
  THEN UNCHANGED <<is_recording, stt_thr, stream_active>>
  ELSE /\ is_recording' = TRUE
       /\ stt_thr' = [stt_thr EXCEPT ![Unborn(stt_thr, SttThreads)].pc = "loop"]
       /\ stream_active' = TRUE

\* start() setting the flag and leaving the recogniser alone
start_flag_only ==
  /\ Call(IF is_running THEN "start_already_running" ELSE "start")
  /\ is_running' = TRUE
  /\ phase' = IF is_running THEN phase
              ELSE IF phase = "stopped" THEN "restarted" ELSE "none"
  /\ UNCHANGED <<request_counter, last_text, stt_queue, translation_queue,
                 tts_queue, sttVars, translatorVars, ttsVars, mainpc,
                 nblocks, block_limit, file_call, apiVars, issued,
                 sub_translation, sub_tts, handed_off, recognised,
                 stop_queued, counter_before_stop, gate_log>>

\* SpeechTranslationPipeline.start
start ==
  /\ Call(IF is_running THEN "start_already_running" ELSE "start")
  /\ is_running \/ Unborn(stt_thr, SttThreads) # 0
  /\ IF is_running
     THEN UNCHANGED <<is_running, sttVars, phase>>
     ELSE /\ is_running' = TRUE
          /\ start_recording
          /\ phase' = IF phase = "stopped" THEN "restarted" ELSE "none"
  /\ UNCHANGED <<request_counter, last_text, stt_queue, translation_queue,
                 tts_queue, audio_queue, translatorVars, ttsVars, mainpc,
                 nblocks, block_limit, file_call, apiVars, issued, sub_translation, sub_tts,
                 handed_off, recognised, stop_queued, counter_before_stop,
                 gate_log>>

\* SpeechToText.stop_recording: the flag, then the stream; the processing
\* thread is not joined
stop_recording ==
  IF ~is_recording
  THEN UNCHANGED <<is_recording, stream_active>>
  ELSE is_recording' = FALSE /\ stream_active' = FALSE

\* SpeechTranslationPipeline.stop turning every call into a full stop
stop_unguarded ==
  /\ Call("stop")
  /\ is_running' = FALSE
  /\ stop_recording
  /\ mainpc' = "stop_translation"
  /\ counter_before_stop' = request_counter
  /\ phase' = "none"
  /\ stop_queued' = [stop_queued EXCEPT
                       !.stt = {audio_queue[i].id : i \in 1 .. Len(audio_queue)}]
  /\ UNCHANGED <<request_counter, last_text, stt_queue, translation_queue,
                 tts_queue, audio_queue, stt_thr, translatorVars, ttsVars,
                 nblocks, block_limit, file_call, apiVars, issued, sub_translation, sub_tts,
                 handed_off, recognised, gate_log>>

\* SpeechTranslationPipeline.stop, lines 151-160: the guard, the flag and
\* stt.stop_recording()
stop ==
  /\ Call(IF is_running THEN "stop" ELSE "stop_not_running")
  /\ IF ~is_running
     THEN UNCHANGED <<is_running, is_recording, stream_active, mainpc,
                      counter_before_stop, phase, stop_queued>>
     ELSE /\ is_running' = FALSE
          /\ stop_recording
          /\ mainpc' = "stop_translation"
          /\ counter_before_stop' = request_counter
          /\ phase' = "none"
          /\ stop_queued' = [stop_queued EXCEPT
                 !.stt = {audio_queue[i].id : i \in 1 .. Len(audio_queue)}]
  /\ UNCHANGED <<request_counter, last_text, stt_queue, translation_queue,
                 tts_queue, audio_queue, stt_thr, translatorVars, ttsVars,
                 nblocks, block_limit, file_call, apiVars, issued, sub_translation, sub_tts,
                 handed_off, recognised, gate_log>>

\* Thread.join(timeout=1.0) returns when the thread has ended, or after one
\* second.  An idle worker polls its loop test every 0.1 s, so the wait runs
\* out only on a worker that is inside a blocking call, or on one whose loop
\* test holds again (`running`: its flag was set again or its queue has items)
JoinReturns(th, blocking, running) ==
  \/ ~Alive(th)
  \/ th.pc \in blocking
  \/ th.pc = "loop" /\ running

\* EnglishToRussianTranslator.stop_translation, line 106, and the test of
\* line 107
stop_translation ==
  /\ mainpc = "stop_translation"
  /\ is_translating' = FALSE
  /\ mainpc' = IF translation_thread # 0 THEN "join_translation" ELSE "stop_tts"
  /\ stop_queued' = [stop_queued EXCEPT
       !.translation = {translator_translation_queue[i].utt :
                          i \in 1 .. Len(translator_translation_queue)}]
  /\ UNCHANGED <<pipelineVars, sttVars, translation_thread,
                 translator_translation_queue, tr_thr, ttsVars, lastCall, nblocks, block_limit, file_call, apiVars, issued, sub_translation, sub_tts,
                 handed_off, recognised, phase, counter_before_stop, gate_log>>

\* EnglishToRussianTranslator.stop_translation, line 108
join_translation ==
  /\ mainpc = "join_translation"
  /\ JoinReturns(tr_thr[translation_thread], {"translate"},
                 is_translating \/ translator_translation_queue # <<>>)
  /\ mainpc' = "stop_tts"
  /\ UNCHANGED <<pipelineVars, sttVars, translatorVars, ttsVars, lastCall, nblocks, block_limit, file_call, apiVars, historyVars>>

\* RussianTextToSpeech.stop_tts, line 191, and the test of line 198
stop_tts ==
  /\ mainpc = "stop_tts"
  /\ is_speaking' = FALSE
  /\ mainpc' = IF tts_thread # 0 THEN "join_tts" ELSE "clear_queues"
  /\ stop_queued' = [stop_queued EXCEPT
       !.tts = {tts_tts_queue[i].utt : i \in 1 .. Len(tts_tts_queue)}]
  /\ UNCHANGED <<pipelineVars, sttVars, translatorVars, tts_thread,
                 tts_tts_queue, tts_thr, lastCall, nblocks, block_limit, file_call, apiVars,
                 issued, sub_translation, sub_tts, handed_off, recognised,
                 phase, counter_before_stop, gate_log>>

\* RussianTextToSpeech.stop_tts, line 199
join_tts ==
  /\ mainpc = "join_tts"
  /\ JoinReturns(tts_thr[tts_thread], {"synthesize", "play"},
                 is_speaking \/ tts_tts_queue # <<>>)
  /\ mainpc' = "clear_queues"
  /\ UNCHANGED <<pipelineVars, sttVars, translatorVars, ttsVars, lastCall, nblocks, block_limit, file_call, apiVars, historyVars>>

\* SpeechTranslationPipeline._clear_queues (and audio_player.close()): the
\* pipeline's own three queues are emptied, and stop() returns
clear_queues ==
  /\ mainpc = "clear_queues"
  /\ stt_queue' = <<>>
  /\ translation_queue' = <<>>
  /\ tts_queue' = <<>>
  /\ mainpc' = "idle"
  /\ phase' = "stopped"
  /\ UNCHANGED <<is_running, request_counter, last_text, sttVars,
                 translatorVars, ttsVars, lastCall, nblocks, block_limit, file_call, apiVars,
                 issued, sub_translation, sub_tts, handed_off, recognised,
                 stop_queued, counter_before_stop, gate_log>>

\* the dict SpeechTranslationPipeline.get_status returns, lines 192-198
StatusReport ==
  [is_running |-> is_running,
   stt_queue_size |-> Len(stt_queue),
   translation_queue_size |-> Len(translation_queue),
   tts_queue_size |-> Len(tts_queue),
   total_requests |-> request_counter]

\* get_status emptying the queues it measures
get_status_draining ==
  /\ lastCall' = "get_status"
  /\ stt_queue' = <<>> /\ translation_queue' = <<>> /\ tts_queue' = <<>>
  /\ UNCHANGED <<is_running, request_counter, last_text, sttVars,
                 translatorVars, ttsVars, mainpc, nblocks, block_limit,
                 file_call, apiVars, historyVars>>

\* SpeechTranslationPipeline.get_status: the caller gets StatusReport.  The
\* caller is any thread (PipelineMonitor._monitor_loop calls it from its own),
\* so the call can come while stop() is under way
get_status ==
  /\ lastCall' = "get_status"
  /\ UNCHANGED <<pipelineVars, sttVars, translatorVars, ttsVars, mainpc,
                 nblocks, block_limit, file_call, apiVars, historyVars>>

(***************************************************************************)
(* The input device: SpeechToText._audio_callback, called by the stream    *)
(* with one block of samples.                                              *)
(***************************************************************************)
Blocks(n) ==
  {[id |-> n, peak |-> 1, said |-> <<>>]}
    \cup {[id |-> n, peak |-> 5, said |-> s] : s \in Spoken}

audio_callback ==
  /\ stream_active
  /\ nblocks < block_limit
  /\ nblocks' = nblocks + 1
  /\ IF is_recording
     THEN /\ \E indata \in Blocks(nblocks + 1) :
               audio_queue' = Append(audio_queue, indata)
          /\ phase' = "none"
     ELSE UNCHANGED <<audio_queue, phase>>
  /\ UNCHANGED <<pipelineVars, is_recording, stream_active, stt_thr,
                 translatorVars, ttsVars, mainVars, block_limit, file_call, apiVars, issued,
                 sub_translation, sub_tts, handed_off, recognised, stop_queued,
                 counter_before_stop, gate_log>>

(***************************************************************************)
(* A recognition thread: SpeechToText._process_audio, and in the same      *)
(* thread the callback SpeechTranslationPipeline._on_speech_to_text with   *)
(* _get_request_id and EnglishToRussianTranslator.translate_async.         *)
(***************************************************************************)
SttStep(t, th) == stt_thr' = [stt_thr EXCEPT ![t] = th]

\* _process_audio with a loop that ends as soon as the flag is cleared
process_audio_no_drain(t) ==
  LET th == stt_thr[t]
  IN
  /\ th.pc = "loop"
  /\ IF ~is_recording
     THEN SttStep(t, [th EXCEPT !.pc = "dead"]) /\ UNCHANGED audio_queue
     ELSE /\ audio_queue # <<>>
          /\ audio_queue' = Tail(audio_queue)
          /\ LET chunk == Head(audio_queue)
                 buf == th.audio_buffer \o <<chunk>>
             IN  IF chunk.peak < EnergyFloor
                 THEN UNCHANGED stt_thr
                 ELSE SttStep(t, [th EXCEPT !.audio_buffer = buf,
                                    !.pc = IF Len(buf) >= CHUNK_SIZE
                                           THEN "transcribe" ELSE "loop"])
  /\ UNCHANGED <<pipelineVars, is_recording, stream_active, translatorVars,
                 ttsVars, mainVars, nblocks, block_limit, file_call, apiVars, historyVars>>

\* _process_audio, lines 63-78: the loop test, audio_queue.get(timeout=0.1),
\* the energy test and the buffer.  A get that times out changes nothing.
process_audio(t) ==
  LET th == stt_thr[t]
  IN
  /\ th.pc = "loop"
  /\ IF ~(is_recording \/ audio_queue # <<>>)
     THEN SttStep(t, [th EXCEPT !.pc = "dead"]) /\ UNCHANGED audio_queue
     ELSE /\ audio_queue # <<>>
          /\ audio_queue' = Tail(audio_queue)
          /\ LET chunk == Head(audio_queue)
                 buf == th.audio_buffer \o <<chunk>>
             IN  IF chunk.peak < EnergyFloor
                 THEN UNCHANGED stt_thr
                 ELSE SttStep(t, [th EXCEPT !.audio_buffer = buf,
                                    !.pc = IF Len(buf) >= CHUNK_SIZE
                                           THEN "transcribe" ELSE "loop"])
  /\ UNCHANGED <<pipelineVars, is_recording, stream_active, translatorVars,
                 ttsVars, mainVars, nblocks, block_limit, file_call, apiVars, historyVars>>

\* audio_buffer[self.CHUNK_SIZE:]
Trimmed(buf) == SubSeq(buf, CHUNK_SIZE + 1, Len(buf))

\* the thread is back at the head of its loop with no item in hand
SttBack(th, buf) ==
  [SttIdle EXCEPT !.pc = "loop", !.audio_buffer = buf]

\* _process_audio, lines 80-95: model.transcribe on the first CHUNK_SIZE
\* samples, then the callback up to its three early returns (lines 80-90 of
\* main_pipeline.py); an exception leaves the buffer as it is
transcribe(t) ==
  LET th == stt_thr[t]
      window == SubSeq(th.audio_buffer, 1, CHUNK_SIZE)
      text == strip(WhisperText(Head(window).said))
  IN
  /\ th.pc = "transcribe"
  /\ recognised' = [recognised EXCEPT ![Head(window).id] = @ + 1]
  /\ \/ SttStep(t, SttBack(th, th.audio_buffer))
     \/ /\ text = <<>> \/ ~Accepts(text, last_text)
        /\ SttStep(t, SttBack(th, Trimmed(th.audio_buffer)))
     \/ /\ text # <<>> /\ Accepts(text, last_text)
        /\ SttStep(t, [th EXCEPT !.pc = "set_last_text", !.text = text,
                         !.cleaned = strip(text), !.utt = Head(window).id])
  /\ UNCHANGED <<pipelineVars, is_recording, stream_active, audio_queue,
                 translatorVars, ttsVars, mainVars, nblocks, block_limit, file_call, apiVars, issued,
                 sub_translation, sub_tts, handed_off, stop_queued, phase,
                 counter_before_stop, gate_log>>

\* _on_speech_to_text, line 92
set_last_text(t) ==
  LET th == stt_thr[t]
  IN
  /\ th.pc = "set_last_text"
  /\ last_text' = th.cleaned
  /\ SttStep(t, [th EXCEPT !.pc = "load_counter"])
  /\ UNCHANGED <<is_running, request_counter, stt_queue, translation_queue,
                 tts_queue, is_recording, stream_active, audio_queue,
                 translatorVars, ttsVars, mainVars, nblocks, block_limit, file_call, apiVars, historyVars>>

\* _get_request_id, line 75: the read of self.request_counter
load_counter(t) ==
  LET th == stt_thr[t]
  IN
  /\ th.pc = "load_counter"
  /\ SttStep(t, [th EXCEPT !.pc = "store_counter", !.loaded = request_counter])
  /\ UNCHANGED <<pipelineVars, is_recording, stream_active, audio_queue,
                 translatorVars, ttsVars, mainVars, nblocks, block_limit, file_call, apiVars, historyVars>>

\* _get_request_id, line 75: the write of self.request_counter
store_counter(t) ==
  LET th == stt_thr[t]
  IN
  /\ th.pc = "store_counter"
  /\ request_counter' = th.loaded + 1
  /\ SttStep(t, [th EXCEPT !.pc = "format_id", !.loaded = 0])
  /\ UNCHANGED <<is_running, last_text, stt_queue, translation_queue,
                 tts_queue, is_recording, stream_active, audio_queue,
                 translatorVars, ttsVars, mainVars, nblocks, block_limit, file_call, apiVars, historyVars>>

\* _get_request_id, line 76: the id is built from a second read of
\* self.request_counter and from the clock
format_id(t) ==
  LET th == stt_thr[t]
  IN
  /\ th.pc = "format_id"
  /\ \E ms \in 0 .. MaxMillis :
       LET id == [seq |-> request_counter, ms |-> ms]
       IN  /\ SttStep(t, [th EXCEPT !.pc = "queue_translation", !.request_id = id])
           /\ issued' = issued \cup {[utt |-> th.utt, id |-> id, text |-> th.cleaned]}
  /\ UNCHANGED <<pipelineVars, is_recording, stream_active, audio_queue,
                 translatorVars, ttsVars, mainVars, nblocks, block_limit, file_call, apiVars, sub_translation,
                 sub_tts, handed_off, recognised, stop_queued, phase,
                 counter_before_stop, gate_log>>

\* _on_speech_to_text, line 100, and the test of translate_async, line 63
queue_translation(t) ==
  LET th == stt_thr[t]
  IN
  /\ th.pc = "queue_translation"
  /\ translation_queue' =
       Append(translation_queue, [text |-> th.cleaned, request_id |-> th.request_id])
  /\ SttStep(t, [th EXCEPT !.pc = IF is_translating
                                  THEN "put_translation"
                                  ELSE "start_translation"])
  /\ UNCHANGED <<is_running, request_counter, last_text, stt_queue, tts_queue,
                 is_recording, stream_active, audio_queue, translatorVars,
                 ttsVars, mainVars, nblocks, block_limit, file_call, apiVars, historyVars>>

\* translate_async, lines 64-67: the flag and a new worker thread
start_translation(t) ==
  LET th == stt_thr[t]
      new == Unborn(tr_thr, TrThreads)
  IN
  /\ th.pc = "start_translation"
  /\ new # 0
  /\ is_translating' = TRUE
  /\ translation_thread' = new
  /\ tr_thr' = [tr_thr EXCEPT ![new].pc = "loop"]
  /\ SttStep(t, [th EXCEPT !.pc = "put_translation"])
  /\ UNCHANGED <<pipelineVars, is_recording, stream_active, audio_queue,
                 translator_translation_queue, ttsVars, mainVars, nblocks, block_limit, file_call, apiVars,
                 historyVars>>

\* translate_async, line 69, the return of the callback, and line 90 of
\* _process_audio (a direct caller of the callback has no buffer to trim)
put_translation(t) ==
  LET th == stt_thr[t]
  IN
  /\ th.pc = "put_translation"
  /\ translator_translation_queue' =
       Append(translator_translation_queue,
              [text |-> th.text, request_id |-> th.request_id, utt |-> th.utt])
  /\ sub_translation' = sub_translation \cup {[utt |-> th.utt, id |-> th.request_id]}
  /\ SttStep(t, IF th.direct
                THEN [SttIdle EXCEPT !.pc = "caller", !.direct = TRUE]
                ELSE SttBack(th, Trimmed(th.audio_buffer)))
  /\ UNCHANGED <<pipelineVars, is_recording, stream_active, audio_queue,
                 is_translating, translation_thread, tr_thr, ttsVars, mainVars,
                 nblocks, block_limit, file_call, apiVars, issued, sub_tts, handed_off, recognised, stop_queued,
                 phase, counter_before_stop, gate_log>>

(***************************************************************************)
(* A translation thread: EnglishToRussianTranslator._process_translations, *)
(* and in the same thread the callback                                     *)
(* SpeechTranslationPipeline._on_translation with                          *)
(* RussianTextToSpeech.synthesize_async.                                   *)
(***************************************************************************)
TrStep(t, th) == tr_thr' = [tr_thr EXCEPT ![t] = th]

TrBack == [TrIdle EXCEPT !.pc = "loop"]

\* _process_translations with a loop that ends as soon as the flag is cleared
process_translations_no_drain(t) ==
  LET th == tr_thr[t]
  IN
  /\ th.pc = "loop"
  /\ IF ~is_translating
     THEN TrStep(t, [th EXCEPT !.pc = "dead"])
          /\ UNCHANGED translator_translation_queue
     ELSE /\ translator_translation_queue # <<>>
          /\ translator_translation_queue' = Tail(translator_translation_queue)
          /\ TrStep(t, [th EXCEPT !.pc = "translate",
                          !.item = Head(translator_translation_queue)])
  /\ UNCHANGED <<pipelineVars, sttVars, is_translating, translation_thread,
                 ttsVars, mainVars, nblocks, block_limit, file_call, apiVars, historyVars>>

\* _process_translations, lines 44-47: the loop test and
\* translation_queue.get(timeout=0.1)
process_translations(t) ==
  LET th == tr_thr[t]
  IN
  /\ th.pc = "loop"
  /\ IF ~(is_translating \/ translator_translation_queue # <<>>)
     THEN TrStep(t, [th EXCEPT !.pc = "dead"])
          /\ UNCHANGED translator_translation_queue
     ELSE /\ translator_translation_queue # <<>>
          /\ translator_translation_queue' = Tail(translator_translation_queue)
          /\ TrStep(t, [th EXCEPT !.pc = "translate",
                          !.item = Head(translator_translation_queue)])
  /\ UNCHANGED <<pipelineVars, sttVars, is_translating, translation_thread,
                 ttsVars, mainVars, nblocks, block_limit, file_call, apiVars, historyVars>>

\* _process_translations with a callback that forwards every translation
translate_unchecked(t) ==
  LET th == tr_thr[t]
  IN
  /\ th.pc = "translate"
  /\ \E out \in TranslateOutcomes(th.item.text) :
       \/ /\ out.raised
          /\ TrStep(t, TrBack)
          /\ UNCHANGED tts_queue
       \/ /\ ~out.raised
          /\ tts_queue' = Append(tts_queue, [text |-> out.text,
                                             request_id |-> th.item.request_id])
          /\ TrStep(t, [th EXCEPT !.translated_text = out.text,
                          !.pc = IF is_speaking THEN "put_tts" ELSE "start_tts"])
  /\ UNCHANGED <<is_running, request_counter, last_text, stt_queue,
                 translation_queue, sttVars, is_translating, translation_thread,
                 translator_translation_queue, ttsVars, mainVars, nblocks, block_limit, file_call, apiVars,
                 historyVars>>

\* _process_translations, lines 50-59: self.translate(text), then the
\* callback _on_translation up to its early return, its put on the
\* pipeline's tts_queue (line 115) and the test of synthesize_async (line 76)
translate(t) ==
  LET th == tr_thr[t]
  IN
  /\ th.pc = "translate"
  /\ \E out \in TranslateOutcomes(th.item.text) :
       \/ /\ out.raised
          /\ TrStep(t, TrBack)
          /\ UNCHANGED tts_queue
       \/ /\ ~out.raised /\ strip(out.text) = <<>>
          /\ TrStep(t, TrBack)
          /\ UNCHANGED tts_queue
       \/ /\ ~out.raised /\ strip(out.text) # <<>>
          /\ tts_queue' = Append(tts_queue, [text |-> out.text,
                                             request_id |-> th.item.request_id])
          /\ TrStep(t, [th EXCEPT !.translated_text = out.text,
                          !.pc = IF is_speaking THEN "put_tts" ELSE "start_tts"])
  /\ UNCHANGED <<is_running, request_counter, last_text, stt_queue,
                 translation_queue, sttVars, is_translating, translation_thread,
                 translator_translation_queue, ttsVars, mainVars, nblocks, block_limit, file_call, apiVars,
                 historyVars>>

\* synthesize_async, lines 77-79: the flag and a new worker thread
start_tts(t) ==
  LET th == tr_thr[t]
      new == Unborn(tts_thr, TtsThreads)
  IN
  /\ th.pc = "start_tts"
  /\ new # 0
  /\ is_speaking' = TRUE
  /\ tts_thread' = new
  /\ tts_thr' = [tts_thr EXCEPT ![new].pc = "loop"]
  /\ TrStep(t, [th EXCEPT !.pc = "put_tts"])
  /\ UNCHANGED <<pipelineVars, sttVars, is_translating, translation_thread,
                 translator_translation_queue, tts_tts_queue, mainVars, nblocks, block_limit, file_call, apiVars,
                 historyVars>>

\* synthesize_async, line 81, and the return of the callback
put_tts(t) ==
  LET th == tr_thr[t]
  IN
  /\ th.pc = "put_tts"
  /\ tts_tts_queue' = Append(tts_tts_queue,
                             [text |-> th.translated_text,
                              request_id |-> th.item.request_id,
                              utt |-> th.item.utt])
  /\ sub_tts' = sub_tts \cup {[utt |-> th.item.utt, id |-> th.item.request_id]}
  /\ TrStep(t, TrBack)
  /\ UNCHANGED <<pipelineVars, sttVars, is_translating, translation_thread,
                 translator_translation_queue, is_speaking, tts_thread, tts_thr,
                 mainVars, nblocks, block_limit, file_call, apiVars, issued, sub_translation, handed_off,
                 recognised, stop_queued, phase, counter_before_stop, gate_log>>

(***************************************************************************)
(* A synthesis thread: RussianTextToSpeech._process_tts, and in the same   *)
(* thread the callback SpeechTranslationPipeline._on_text_to_speech.       *)
(***************************************************************************)
TtsStep(t, th) == tts_thr' = [tts_thr EXCEPT ![t] = th]

TtsBack == [TtsIdle EXCEPT !.pc = "loop"]

\* _process_tts with a loop that ends as soon as the flag is cleared
process_tts_no_drain(t) ==
  LET th == tts_thr[t]
  IN
  /\ th.pc = "loop"
  /\ IF ~is_speaking
     THEN TtsStep(t, [th EXCEPT !.pc = "clear_speaking"])
          /\ UNCHANGED tts_tts_queue
     ELSE /\ tts_tts_queue # <<>>
          /\ tts_tts_queue' = Tail(tts_tts_queue)
          /\ TtsStep(t, [th EXCEPT !.pc = "synthesize",
                           !.item = Head(tts_tts_queue)])
  /\ UNCHANGED <<pipelineVars, sttVars, translatorVars, is_speaking,
                 tts_thread, mainVars, nblocks, block_limit, file_call, apiVars, historyVars>>

\* _process_tts, lines 58-60: the loop test and tts_queue.get(timeout=0.1)
process_tts(t) ==
  LET th == tts_thr[t]
  IN
  /\ th.pc = "loop"
  /\ IF ~(is_speaking \/ tts_tts_queue # <<>>)
     THEN TtsStep(t, [th EXCEPT !.pc = "clear_speaking"])
          /\ UNCHANGED tts_tts_queue
     ELSE /\ tts_tts_queue # <<>>
          /\ tts_tts_queue' = Tail(tts_tts_queue)
          /\ TtsStep(t, [th EXCEPT !.pc = "synthesize",
                           !.item = Head(tts_tts_queue)])
  /\ UNCHANGED <<pipelineVars, sttVars, translatorVars, is_speaking,
                 tts_thread, mainVars, nblocks, block_limit, file_call, apiVars, historyVars>>

\* _process_tts, lines 62-65: self.synthesize(text), the test of line 64 and
\* the callback _on_text_to_speech up to the call of audio_player.play
synthesize(t) ==
  LET th == tts_thr[t]
  IN
  /\ th.pc = "synthesize"
  /\ \E audio_data \in SynthesizeOutcomes(th.item.text) :
       IF Len(audio_data) > 0
       THEN /\ TtsStep(t, [th EXCEPT !.pc = "play", !.audio_data = audio_data])
            /\ handed_off' = handed_off \cup
                 {[utt |-> th.item.utt, id |-> th.item.request_id]}
       ELSE /\ TtsStep(t, TtsBack)
            /\ UNCHANGED handed_off
  /\ UNCHANGED <<pipelineVars, sttVars, translatorVars, is_speaking,
                 tts_thread, tts_tts_queue, mainVars, nblocks, block_limit, file_call, apiVars, issued,
                 sub_translation, sub_tts, recognised, stop_queued, phase,
                 counter_before_stop, gate_log>>

\* AudioPlayer.play returns (its own errors are caught inside), and so does
\* the callback
play(t) ==
  LET th == tts_thr[t]
  IN
  /\ th.pc = "play"
  /\ TtsStep(t, TtsBack)
  /\ UNCHANGED <<pipelineVars, sttVars, translatorVars, is_speaking,
                 tts_thread, tts_tts_queue, mainVars, nblocks, block_limit, file_call, apiVars, historyVars>>

\* _process_tts, line 72: the thread clears the flag as it ends
clear_speaking(t) ==
  LET th == tts_thr[t]
  IN
  /\ th.pc = "clear_speaking"
  /\ is_speaking' = FALSE
  /\ TtsStep(t, [th EXCEPT !.pc = "dead"])
  /\ UNCHANGED <<pipelineVars, sttVars, translatorVars, tts_thread,
                 tts_tts_queue, mainVars, nblocks, block_limit, file_call, apiVars, historyVars>>

(***************************************************************************)
(* The streaming pipeline.                                                 *)
(***************************************************************************)
SttNext(t) ==
  \/ process_audio(t) \/ transcribe(t)
  \/ set_last_text(t) \/ load_counter(t) \/ store_counter(t) \/ format_id(t)
  \/ queue_translation(t) \/ start_translation(t) \/ put_translation(t)

TrNext(t) ==
  \/ process_translations(t) \/ translate(t) \/ start_tts(t) \/ put_tts(t)

TtsWork(t) == process_tts(t) \/ synthesize(t) \/ play(t)

TtsNext(t) == TtsWork(t) \/ clear_speaking(t)

Next ==
  \/ start \/ stop \/ stop_translation \/ join_translation \/ stop_tts
  \/ join_tts \/ clear_queues \/ get_status
  \/ audio_callback
  \/ \E t \in SttThreads : SttNext(t)
  \/ \E t \in TrThreads : TrNext(t)
  \/ \E t \in TtsThreads : TtsNext(t)

Spec == Init /\ [][Next]_vars

(***************************************************************************)
(* The recognition side with more audio: the device delivers MaxRaceBlocks *)
(* blocks, and the translation and synthesis threads are not scheduled (a  *)
(* worker thread may be held up for any length of time).                   *)
(***************************************************************************)
RaceInit == Constructed(MaxRaceBlocks, [t \in SttThreads |-> SttIdle])

RaceNext ==
  \/ start \/ stop \/ stop_translation \/ stop_tts \/ clear_queues
  \/ audio_callback
  \/ \E t \in SttThreads : SttNext(t)

RaceSpec == RaceInit /\ [][RaceNext]_vars

(***************************************************************************)
(* The callback on its own: one caller hands _on_speech_to_text one        *)
(* candidate after another; the translation and synthesis workers run as   *)
(* in the streaming pipeline.                                              *)
(***************************************************************************)
Candidates ==
  { <<>>,
    <<" ", "\t">>,
    <<"a">>,
    <<" ", "a", "\n">>,
    <<"A">>,
    <<"b">>,
    ThankYou,
    <<" ", "T", "H", "A", "N", "K", " ", "Y", "O", "U", ".", " ">>,
    <<"T", "h", "a", "n", "k", " ", "Y", "o", "u", "\n">> }

\* the caller of the callback takes the place of recognition thread 1
GateInit ==
  Constructed(0, [t \in SttThreads |->
                    IF t = 1
                    THEN [SttIdle EXCEPT !.pc = "caller", !.direct = TRUE]
                    ELSE SttIdle])

\* a handler that remembers every candidate, also the ones it turns away
DeliverRemembering(texts, limit) ==
  LET th == stt_thr[1]
  IN
  /\ th.pc = "caller"
  /\ Len(gate_log) < limit
  /\ \E text \in texts :
       /\ gate_log' = Append(gate_log, [text |-> text, last |-> last_text,
                                        accepted |-> Accepts(text, last_text)])
       /\ IF Accepts(text, last_text)
          THEN /\ SttStep(1, [th EXCEPT !.pc = "set_last_text", !.text = text,
                                !.cleaned = strip(text),
                                !.utt = Len(gate_log) + 1])
               /\ UNCHANGED last_text
          ELSE /\ last_text' = strip(text)
               /\ UNCHANGED stt_thr
  /\ UNCHANGED <<is_running, request_counter, stt_queue, translation_queue,
                 tts_queue, is_recording, stream_active, audio_queue,
                 translatorVars, ttsVars, mainVars, nblocks, block_limit, file_call, apiVars, issued,
                 sub_translation, sub_tts, handed_off, recognised, stop_queued,
                 phase, counter_before_stop>>

\* _on_speech_to_text(text), lines 80-90, called directly with one of `texts`,
\* at most `limit` times
DeliverUpTo(texts, limit) ==
  LET th == stt_thr[1]
  IN
  /\ th.pc = "caller"
  /\ Len(gate_log) < limit
  /\ \E text \in texts :
       /\ gate_log' = Append(gate_log, [text |-> text, last |-> last_text,
                                        accepted |-> Accepts(text, last_text)])
       /\ IF Accepts(text, last_text)
          THEN SttStep(1, [th EXCEPT !.pc = "set_last_text", !.text = text,
                             !.cleaned = strip(text),
                             !.utt = Len(gate_log) + 1])
          ELSE UNCHANGED stt_thr
  /\ UNCHANGED <<pipelineVars, is_recording, stream_active, audio_queue,
                 translatorVars, ttsVars, mainVars, nblocks, block_limit, file_call, apiVars, issued,
                 sub_translation, sub_tts, handed_off, recognised, stop_queued,
                 phase, counter_before_stop>>

DeliverFrom(texts) == DeliverUpTo(texts, MaxDeliveries)

deliver == DeliverFrom(Candidates)

GateNext ==
  \/ deliver
  \/ set_last_text(1) \/ load_counter(1) \/ store_counter(1) \/ format_id(1)
  \/ queue_translation(1) \/ start_translation(1) \/ put_translation(1)
  \/ \E t \in TrThreads : TrNext(t)
  \/ \E t \in TtsThreads : TtsWork(t)

GateSpec == GateInit /\ [][GateNext]_vars

\* the handler called with sequences of MaxSequence candidates, for what it
\* remembers from one call to the next
SequenceTexts == { <<>>, <<"a">>, <<"b">>, ThankYou }

deliver_sequence == DeliverUpTo(SequenceTexts, MaxSequence)

SequenceNext ==
  \/ deliver_sequence
  \/ set_last_text(1) \/ load_counter(1) \/ store_counter(1) \/ format_id(1)
  \/ queue_translation(1) \/ start_translation(1) \/ put_translation(1)
  \/ \E t \in TrThreads : TrNext(t)
  \/ \E t \in TtsThreads : TtsWork(t)

SequenceSpec == GateInit /\ [][SequenceNext]_vars

(***************************************************************************)
(* Properties of the utterance gate, checked under GateSpec.               *)
(***************************************************************************)
\* the handler has let candidate number i through: an id was issued for it or
\* it was submitted to translation
Passed(i) ==
  \/ \E x \in issued : x.utt = i
  \/ \E x \in sub_translation : x.utt = i

AllWhitespace(text) == \A k \in 1 .. Len(text) : text[k] \in Whitespace

C2_ThankYouRejected ==
  \A i \in 1 .. Len(gate_log) :
    lower(strip(gate_log[i].text)) \in {ThankYou, ThankYouDot}
      => ~gate_log[i].accepted /\ ~Passed(i)

\* a padded upper-case "thank you." arrived after another text had been
\* accepted, and was turned away
C2_Witness ==
  \E i \in 1 .. Len(gate_log) :
    /\ gate_log[i].text # lower(gate_log[i].text)
    /\ lower(strip(gate_log[i].text)) = ThankYouDot
    /\ gate_log[i].last # <<>>
    /\ ~gate_log[i].accepted
    /\ stt_thr[1].pc = "caller"

\* C3: a candidate that is empty or only whitespace is rejected whatever the
\* handler accepted before: no request id, no submission.
C3_BlankRejected ==
  \A i \in 1 .. Len(gate_log) :
    AllWhitespace(gate_log[i].text) => ~gate_log[i].accepted /\ ~Passed(i)

\* a whitespace-only candidate arrived after a text had been accepted and
\* submitted, and was turned away
C3_Witness ==
  \E i \in 2 .. Len(gate_log) :
    /\ gate_log[i].text # <<>> /\ AllWhitespace(gate_log[i].text)
    /\ gate_log[i - 1].accepted
    /\ \E x \in sub_translation : x.utt = i - 1
    /\ gate_log[i].last # <<>>
    /\ ~gate_log[i].accepted
    /\ stt_thr[1].pc = "caller"

(***************************************************************************)
(* Properties of request ids, checked under RaceSpec: start(), stop(),     *)
(* start() leaves two recognition threads, and both run the handler.       *)
(***************************************************************************)
\* C4: the sequence numbers _get_request_id hands out are strictly increasing
\* and never repeat: every newly issued id has a sequence number above those
\* of all ids issued before, whichever threads called.
C4_SequenceNumbersIncrease ==
  [][\A new \in issued' \ issued :
       \A old \in issued : new.id.seq > old.id.seq]_vars

\* C5: an issued request id belongs to one utterance only, is submitted to
\* translation exactly once when its handler has returned, and is submitted
\* to synthesis and handed to playback at most once.
C5_OneIdOneUtterance ==
  \A x \in issued :
    /\ \A y \in issued : y.id = x.id => y.utt = x.utt
    /\ Cardinality({s \in sub_translation : s.id = x.id}) <= 1
    /\ (\A t \in SttThreads : stt_thr[t].utt # x.utt)
         => Cardinality({s \in sub_translation : s.id = x.id}) = 1
    /\ Cardinality({s \in sub_tts : s.id = x.id}) <= 1
    /\ Cardinality({s \in handed_off : s.id = x.id}) <= 1

(***************************************************************************)
(* Properties of start() and stop(), checked under Spec.                   *)
(***************************************************************************)
\* what the program itself holds: every field of the pipeline and its stages
programState == <<pipelineVars, sttVars, translatorVars, ttsVars>>

StartCalled == lastCall' # lastCall /\ lastCall' \in {"start", "start_already_running"}

StopCalled == lastCall' # lastCall /\ lastCall' \in {"stop", "stop_not_running"}

\* C6: when stop() and then start() have been called on a running pipeline and
\* no audio has arrived since, get_status() reports is_running true, the three
\* queue depths 0 and total_requests as it was just before stop().
C6_RestartReportsFreshState ==
  [][(lastCall' = "get_status" /\ lastCall # "get_status" /\ phase = "restarted")
       => /\ StatusReport.is_running
          /\ StatusReport.stt_queue_size = 0
          /\ StatusReport.translation_queue_size = 0
          /\ StatusReport.tts_queue_size = 0
          /\ StatusReport.total_requests = counter_before_stop]_vars

\* C7: start() on a running pipeline and stop() on a stopped pipeline change
\* nothing: every field of the pipeline and of its stages is as before, and
\* the call returns at once.
C7_RepeatedCallsChangeNothing ==
  [][/\ (StartCalled /\ is_running)
          => UNCHANGED programState /\ mainpc' = "idle"
     /\ (StopCalled /\ ~is_running)
          => UNCHANGED programState /\ mainpc' = "idle"]_vars

\* start() was called on a pipeline that was running and had work in hand
C7_Witness ==
  /\ lastCall = "start_already_running"
  /\ is_running
  /\ \E t \in SttThreads : stt_thr[t].pc \notin {"unborn", "loop", "dead"}

\* C8: stop() stops capture and recognition before it stops the translation
\* and synthesis workers, and when stop() returns the input queue of every
\* stage is empty.
C8_StopLeavesQueuesEmpty ==
  [][/\ mainpc' \in {"stop_translation", "join_translation", "stop_tts",
                     "join_tts", "clear_queues"}
          => ~stream_active' /\ ~is_recording'
     /\ (mainpc = "clear_queues" /\ mainpc' = "idle")
          => /\ audio_queue' = <<>>
             /\ translator_translation_queue' = <<>>
             /\ tts_tts_queue' = <<>>]_vars

(***************************************************************************)
(* Properties of the worker loops, checked under Spec.                     *)
(***************************************************************************)
\* the ids of the audio blocks a recognition thread has in its buffer
Buffered(th) == {th.audio_buffer[k].id : k \in 1 .. Len(th.audio_buffer)}

\* C9 as the specification states it: an item that was waiting in a stage's
\* queue when the stage's stop flag was set is never passed to the stage's
\* processing function.
C9_QueuedItemsDiscarded ==
  /\ \A t \in SttThreads :
       stt_thr[t].pc = "transcribe" => Buffered(stt_thr[t]) \cap stop_queued.stt = {}
  /\ \A t \in TrThreads :
       tr_thr[t].pc = "translate" => tr_thr[t].item.utt \notin stop_queued.translation
  /\ \A t \in TtsThreads :
       tts_thr[t].pc = "synthesize" => tts_thr[t].item.utt \notin stop_queued.tts

\* C9: stopping a stage worker does not discard the items waiting in its
\* queue: the worker's loop goes on while items are queued, so a worker thread
\* ends only when its loop test finds the stop flag clear and the queue empty.
C9_WorkerEndsOnlyDrained ==
  [][/\ \A t \in SttThreads :
          (stt_thr[t].pc = "loop" /\ stt_thr'[t].pc = "dead")
            => ~is_recording /\ audio_queue = <<>>
     /\ \A t \in TrThreads :
          (tr_thr[t].pc = "loop" /\ tr_thr'[t].pc = "dead")
            => ~is_translating /\ translator_translation_queue = <<>>
     /\ \A t \in TtsThreads :
          (tts_thr[t].pc = "loop" /\ tts_thr'[t].pc = "clear_speaking")
            => ~is_speaking /\ tts_tts_queue = <<>>]_vars

\* a text that was waiting in the translation queue when stop_translation()
\* cleared the flag was translated all the same and went on to synthesis, and
\* the translation thread has ended since
C9_Witness ==
  /\ \E x \in sub_tts : x.utt \in stop_queued.translation
  /\ \E t \in TrThreads : tr_thr[t].pc = "dead"
  /\ ~is_translating

\* C10: an item whose processing fails is dropped and the worker keeps running:
\* back at the head of its loop a worker holds nothing of an item it has
\* already passed to its processing function.
C10_FailedItemDropped ==
  /\ \A t \in SttThreads :
       stt_thr[t].pc = "loop"
         => \A b \in Buffered(stt_thr[t]) : recognised[b] = 0
  /\ \A t \in TrThreads : tr_thr[t].pc = "loop" => tr_thr[t].item = NoItem
  /\ \A t \in TtsThreads : tts_thr[t].pc = "loop" => tts_thr[t].item = NoItem

(***************************************************************************)
(* The stage workers under submit, start and stop: StageSpec.  Texts reach *)
(* _on_speech_to_text one after another as in GateSpec, while the main     *)
(* thread calls start() and stop().                                        *)
(***************************************************************************)
\* the recognised texts of StageSpec: what Whisper returns for the phrases
StageTexts == {WhisperText(said) : said \in Spoken \ {<<>>}}

submit == DeliverFrom(StageTexts)

StageNext ==
  \/ start \/ stop \/ stop_translation \/ join_translation \/ stop_tts
  \/ join_tts \/ clear_queues
  \/ submit
  \/ set_last_text(1) \/ load_counter(1) \/ store_counter(1) \/ format_id(1)
  \/ queue_translation(1) \/ start_translation(1) \/ put_translation(1)
  \/ \E t \in SttThreads : process_audio(t)
  \/ \E t \in TrThreads : TrNext(t)
  \/ \E t \in TtsThreads : TtsNext(t)

StageSpec == GateInit /\ [][StageNext]_vars

\* the utterances waiting in a worker's queue
Waiting(q) == {q[k].utt : k \in 1 .. Len(q)}

\* C11: within one stage's queue, items are dequeued and handed to the
\* processing function in the order they were submitted: a worker takes the
\* oldest waiting item, and when an item is processed no worker is holding an
\* older item of that stage that is still to be processed.
C11_StageQueueIsFifo ==
  [][/\ \A t \in TrThreads :
          /\ (tr_thr[t].pc = "loop" /\ tr_thr'[t].pc = "translate")
               => \A u \in Waiting(translator_translation_queue') :
                    tr_thr'[t].item.utt < u
          /\ (tr_thr[t].pc = "translate" /\ tr_thr'[t].pc # "translate")
               => \A o \in TrThreads :
                    tr_thr[o].pc = "translate"
                      => tr_thr[o].item.utt >= tr_thr[t].item.utt
     /\ \A t \in TtsThreads :
          (tts_thr[t].pc = "synthesize" /\ tts_thr'[t].pc # "synthesize")
            => \A o \in TtsThreads :
                 tts_thr[o].pc = "synthesize"
                   => tts_thr[o].item.utt >= tts_thr[t].item.utt]_vars

(***************************************************************************)
(* File mode: SpeechTranslationPipeline.process_file, called by the main   *)
(* thread.  Every stage is a direct blocking call.                         *)
(***************************************************************************)
\* what the audio file can hold: nothing recognisable, a phrase, or the
\* phrase "thank you"
FileSpoken == {<<>>, <<"a">>, ThankYou}

FileStep(fc) == file_call' = fc

FileUnchanged ==
  UNCHANGED <<pipelineVars, sttVars, translatorVars, ttsVars, mainVars,
              nblocks, block_limit, historyVars, apiVars>>

\* process_file raises: the exception of stage `stage` reaches the caller
FileRaises(stage) ==
  FileStep([file_call EXCEPT !.pc = "idle", !.result.kind = "raised",
                             !.failed = @ \cup {stage}])

\* process_file returns its dict, lines 225-229
FileRecord(fc) ==
  [fc EXCEPT !.pc = "idle",
             !.result = [kind |-> "record", english_text |-> fc.english_text,
                         russian_text |-> fc.russian_text,
                         audio_samples |-> Len(fc.audio_data)]]

\* process_file(audio_file_path) is called
process_file ==
  /\ file_call.pc = "idle"
  /\ \E said \in FileSpoken :
       FileStep([FileIdle EXCEPT !.pc = "transcribe_file", !.said = said])
  /\ FileUnchanged

\* process_file with the early returns of _on_speech_to_text in place of the
\* test of line 208
file_transcribe_gated ==
  LET english_text == strip(WhisperText(file_call.said))
  IN
  /\ file_call.pc = "transcribe_file"
  /\ \/ FileRaises("recognition")
     \/ IF ~Accepts(english_text, last_text)
        THEN FileStep([file_call EXCEPT !.pc = "idle",
                         !.result.kind = "returned_none",
                         !.failed = @ \cup {"recognition"}])
        ELSE FileStep([file_call EXCEPT !.pc = "translate",
                         !.english_text = english_text])
  /\ FileUnchanged

\* process_file, lines 205-210: stt.transcribe_file, and the return without a
\* value when the text is blank
file_transcribe ==
  LET english_text == strip(WhisperText(file_call.said))
  IN
  /\ file_call.pc = "transcribe_file"
  /\ \/ FileRaises("recognition")
     \/ IF strip(english_text) = <<>>
        THEN FileStep([file_call EXCEPT !.pc = "idle",
                         !.result.kind = "returned_none",
                         !.failed = @ \cup {"recognition"}])
        ELSE FileStep([file_call EXCEPT !.pc = "translate",
                         !.english_text = english_text])
  /\ FileUnchanged

\* process_file, line 213: translator.translate(english_text)
file_translate ==
  /\ file_call.pc = "translate"
  /\ \E out \in TranslateOutcomes(file_call.english_text) :
       IF out.raised
       THEN FileRaises("translation")
       ELSE FileStep([file_call EXCEPT
              !.pc = "synthesize", !.russian_text = out.text,
              !.failed = IF out.text = <<>> THEN @ \cup {"translation"} ELSE @])
  /\ FileUnchanged

\* process_file synthesising the English text
file_synthesize_english ==
  /\ file_call.pc = "synthesize"
  /\ \E audio_data \in SynthesizeOutcomes(file_call.english_text) :
       LET fc == [file_call EXCEPT
                    !.audio_data = audio_data,
                    !.failed = IF audio_data = <<>> THEN @ \cup {"synthesis"} ELSE @]
       IN  IF Len(audio_data) > 0
           THEN FileStep([fc EXCEPT !.pc = "play"])
           ELSE FileStep(FileRecord(fc))
  /\ FileUnchanged

\* process_file, lines 217-221: tts.synthesize(russian_text), which returns an
\* empty array when it fails, and the test before playing
file_synthesize ==
  /\ file_call.pc = "synthesize"
  /\ \E audio_data \in SynthesizeOutcomes(file_call.russian_text) :
       LET fc == [file_call EXCEPT
                    !.audio_data = audio_data,
                    !.failed = IF audio_data = <<>> THEN @ \cup {"synthesis"} ELSE @]
       IN  IF Len(audio_data) > 0
           THEN FileStep([fc EXCEPT !.pc = "play"])
           ELSE FileStep(FileRecord(fc))
  /\ FileUnchanged

\* process_file, lines 222-229: audio_player.play returns, then the dict
file_play ==
  /\ file_call.pc = "play"
  /\ FileStep(FileRecord(file_call))
  /\ FileUnchanged

FileNext ==
  \/ process_file \/ file_transcribe \/ file_translate \/ file_synthesize
  \/ file_play
  \/ submit
  \/ set_last_text(1) \/ load_counter(1) \/ store_counter(1) \/ format_id(1)
  \/ queue_translation(1) \/ start_translation(1) \/ put_translation(1)
  \/ \E t \in TrThreads : TrNext(t)
  \/ \E t \in TtsThreads : TtsWork(t)

FileSpec == GateInit /\ [][FileNext]_vars

(***************************************************************************)
(* Properties of process_file, checked under FileSpec.                     *)
(***************************************************************************)
\* a step of process_file
FileMoves == file_call' # file_call

\* C12: process_file returns its record or raises at the first stage that
\* fails: it never returns normally without a record, and never returns a
\* record when a stage raised or produced nothing.
C12_FileRecordOrRaise ==
  /\ file_call.result.kind \in {"pending", "record", "raised"}
  /\ file_call.result.kind = "record" => file_call.failed = {}

\* C13: when no stage fails, the record holds the recogniser's output as
\* english_text, translate(english_text) as russian_text and the length of
\* synthesize(russian_text) as the sample count.
C13_FileRecordValues ==
  LET rec == file_call.result
  IN  (rec.kind = "record" /\ file_call.failed = {})
        => /\ rec.english_text = strip(WhisperText(file_call.said))
           /\ [raised |-> FALSE, text |-> rec.russian_text]
                \in TranslateOutcomes(rec.english_text)
           /\ file_call.audio_data \in SynthesizeOutcomes(rec.russian_text)
           /\ rec.audio_samples = Len(file_call.audio_data)

\* a file with a phrase went through the three stages and its record came back
C13_Witness ==
  /\ file_call.result.kind = "record"
  /\ file_call.failed = {}
  /\ file_call.said = <<"a">>
  /\ file_call.result.audio_samples > 0

\* C14: process_file goes round the gate and the queues: no step of it changes
\* last_text, request_counter, is_running, a queue or a worker, and its only
\* return before translation is for a blank recognised text, so a denylisted
\* text and a repeat of last_text are processed.
C14_FileBypassesGate ==
  [][FileMoves =>
       /\ UNCHANGED <<pipelineVars, sttVars, translatorVars, ttsVars>>
       /\ (file_call.pc = "transcribe_file"
             /\ file_call'.result.kind = "returned_none")
            => strip(WhisperText(file_call.said)) = <<>>]_vars

\* process_file returned a record for the text the gate accepted last, while
\* that text was still held in last_text and its request counted
C14_Witness ==
  /\ file_call.result.kind = "record"
  /\ last_text # <<>>
  /\ file_call.result.english_text = strip(last_text)
  /\ request_counter = 1
  /\ translation_queue # <<>>

(***************************************************************************)
(* Properties of get_status, checked under Spec.                           *)
(***************************************************************************)
StatusCalled == lastCall' = "get_status" /\ lastCall # "get_status"

\* C15: get_status() is read-only and does not wait: it can be called in
\* every state, and the call changes no field of the pipeline, no queue and
\* no worker.
C15_StatusIsReadOnly ==
  /\ [](ENABLED get_status)
  /\ [][StatusCalled => UNCHANGED programState]_vars

\* get_status() was called while stop() was waiting in a join and a worker
\* was inside its stage function
C15_Witness ==
  /\ lastCall = "get_status"
  /\ mainpc \in {"join_translation", "join_tts"}
  /\ \/ \E t \in TrThreads : tr_thr[t].pc = "translate"
     \/ \E t \in TtsThreads : tts_thr[t].pc = "synthesize"

\* C16: each queue depth get_status() reports is the number of items
\* submitted to that stage's worker and not yet taken by it (compared while
\* no submission is half done).
C16_DepthsAreBacklogs ==
  /\ StatusReport.stt_queue_size = Len(audio_queue)
  /\ (\A t \in SttThreads :
        stt_thr[t].pc \notin {"start_translation", "put_translation"})
       => StatusReport.translation_queue_size = Len(translator_translation_queue)
  /\ (\A t \in TrThreads : tr_thr[t].pc \notin {"start_tts", "put_tts"})
       => StatusReport.tts_queue_size = Len(tts_tts_queue)

(***************************************************************************)
(* api_app: the HTTP service.  Its coroutines run on one event loop, so a  *)
(* handler runs without interruption from one await to the next.           *)
(***************************************************************************)
\* MAX_FILE_SIZE_BYTES, in units of 10 MiB rounded up: a file of size 1 is
\* within the limit, a file of size 2 is above it
MAX_FILE_SIZE_BYTES == 1

\* the limiter's "10/minute", scaled to two requests in a window
RATE_LIMIT == 2

\* the keep-alive connections of the client
Connections == {1, 2}

\* the values of STS_API_KEY and of the X-API-Key header
Keys == {"k"}
Offered == {None, "k", "x"}

\* the file names of an upload: none, a text file, a WAV file
Filenames == {<<>>, <<"a", ".", "t", "x", "t">>, <<"a", ".", "W", "A", "V">>}

\* str.endswith
EndsWith(s, suffix) ==
  /\ Len(s) >= Len(suffix)
  /\ SubSeq(s, Len(s) - Len(suffix) + 1, Len(s)) = suffix

\* what a chunk can hold: silence, for which the placeholder phrase is
\* translated, or a number, whose translation has no letters
ApiSpoken == {<<>>, <<"1">>}

\* a 16 kHz mono WAV file with one frame in which `said` was spoken
Chunk(said) == [size |-> 1, decodes |-> TRUE, sample_rate |-> 16000,
                frames |-> 1, said |-> said]

\* the uploads: an empty file, a file above the size limit, bytes that are no
\* WAV file, a chunk at 8 kHz, a WAV file without frames, and valid chunks
Bodies ==
  {[NoBody EXCEPT !.size = 0], [NoBody EXCEPT !.size = 2],
   [NoBody EXCEPT !.size = 1],
   [Chunk(<<"1">>) EXCEPT !.sample_rate = 8000],
   [Chunk(<<>>) EXCEPT !.frames = 0]}
    \cup {Chunk(said) : said \in ApiSpoken}

\* the phrase used when no speech was recognised
Placeholder ==
  <<"H", "e", "l", "l", "o", ",", " ", "h", "o", "w", " ", "a", "r", "e", " ",
    "y", "o", "u", "?">>

\* an outcome of translate_audio_chunk that is an exception, after `stages`
\* were invoked
Raised(exc, stages) == [raised |-> exc, stages |-> stages, dict |-> NoDict]

\* the checks before recognition with the sample rate left unchecked
RejectedAnyRate(body) ==
  body.size = 0 \/ ~body.decodes \/ body.frames = 0

\* translate_audio_chunk, the checks before recognition: an empty payload,
\* bytes soundfile cannot decode, a sample rate other than 16 kHz, no frames
Rejected(body) ==
  \/ body.size = 0
  \/ ~body.decodes
  \/ body.sample_rate # 16000
  \/ body.frames = 0

\* SpeechToText.transcribe_audio_data: an exception of the model, or the text
TranscribeOutcomes(said) ==
  {[raised |-> TRUE, text |-> <<>>],
   [raised |-> FALSE, text |-> strip(WhisperText(said))]}

\* synthesis with empty audio returned like any other
SynthesisedUnchecked(english_text, russian_text) ==
  {[raised |-> "", stages |-> <<"recognise", "translate", "synthesize">>,
    dict |-> [audio |-> IF russian_audio = <<>> THEN <<>>
                        ELSE <<"RIFF">> \o russian_audio,
              english_text |-> english_text,
              russian_text |-> russian_text]]
     : russian_audio \in SynthesizeOutcomes(russian_text)}

\* translate_audio_chunk, step 3: synthesis, empty audio is an error, the
\* samples are encoded as a WAV file
Synthesised(english_text, russian_text) ==
  {IF russian_audio = <<>>
   THEN Raised("ValueError", <<"recognise", "translate", "synthesize">>)
   ELSE [raised |-> "",
         stages |-> <<"recognise", "translate", "synthesize">>,
         dict |-> [audio |-> <<"RIFF">> \o russian_audio,
                   english_text |-> english_text,
                   russian_text |-> russian_text]]
     : russian_audio \in SynthesizeOutcomes(russian_text)}

\* translate_audio_chunk, step 2: translation, an empty translation is an
\* error
Translated(english_text) ==
  UNION {IF out.raised
         THEN {Raised("Exception", <<"recognise", "translate">>)}
         ELSE IF strip(out.text) = <<>>
         THEN {Raised("ValueError", <<"recognise", "translate">>)}
         ELSE Synthesised(english_text, strip(out.text))
           : out \in TranslateOutcomes(english_text)}

\* TranslationPipeline.translate_audio_chunk: what a call on `body` can do
translate_audio_chunk(body) ==
  IF Rejected(body)
  THEN {Raised("ValueError", <<>>)}
  ELSE UNION {IF out.raised
              THEN {Raised("Exception", <<"recognise">>)}
              ELSE Translated(IF strip(out.text) = <<>> THEN Placeholder
                              ELSE strip(out.text))
                : out \in TranscribeOutcomes(body.said)}

\* str.encode("latin-1") succeeds: Response encodes every header value so
EncodesLatin1(text) == \A i \in 1 .. Len(text) : text[i] \notin Cyrillic

\* an HTTPException, answered as a JSON error
ErrorResponse(status) == [NoResponse EXCEPT !.status = status]

\* translate_audio after translate_audio_chunk: the Response with the audio
\* and the three headers, or the HTTPException the except clauses make of
\* what was raised (ValueError includes the UnicodeEncodeError of a header)
Answer(out) ==
  IF out.raised = "ValueError" THEN ErrorResponse(400)
  ELSE IF out.raised = "Exception" THEN ErrorResponse(500)
  ELSE IF ~(EncodesLatin1(out.dict.english_text)
            /\ EncodesLatin1(out.dict.russian_text))
  THEN ErrorResponse(400)
  ELSE [status |-> 200, audio |-> out.dict.audio,
        english_text |-> out.dict.english_text,
        russian_text |-> out.dict.russian_text,
        processing_time |-> TRUE]

\* verify_api_key: the status of the HTTPException raised, 0 when none is
verify_api_key(x_api_key) ==
  IF API_KEY = None THEN 0
  ELSE IF x_api_key = None THEN 401
  ELSE IF x_api_key # API_KEY THEN 403
  ELSE 0

\* get_pipeline constructing a TranslationPipeline at every call
get_pipeline_always == pipeline' = built + 1 /\ built' = built + 1

\* get_pipeline: the TranslationPipeline is constructed when there is none;
\* pipeline' is what the call returns
get_pipeline ==
  IF pipeline = 0
  THEN pipeline' = built + 1 /\ built' = built + 1
  ELSE UNCHANGED <<pipeline, built>>

streamVars == <<pipelineVars, sttVars, translatorVars, ttsVars, mainVars,
                nblocks, block_limit, historyVars, file_call>>

\* startup_event, after which the server accepts requests; EAGER_LOAD is
\* "true" or something else
startup_event ==
  /\ ~serving
  /\ serving' = TRUE
  /\ \E eager \in BOOLEAN :
       IF eager THEN get_pipeline ELSE UNCHANGED <<pipeline, built>>
  /\ UNCHANGED <<API_KEY, hits, requests, api_log, streamVars>>

\* the limiter's window ends
minute_passes ==
  /\ hits > 0
  /\ hits' = 0
  /\ UNCHANGED <<API_KEY, pipeline, built, serving, requests, api_log,
                 streamVars>>

\* the events of one request in api_log
Events(r, kinds) == [i \in 1 .. Len(kinds) |-> <<r, kinds[i]>>]

\* translate_audio up to `await file.read()`: the server takes request r from
\* a connection on which nothing is unanswered; `file` being a parameter,
\* FastAPI receives and parses the multipart body before it calls the
\* endpoint; the limiter counts the request or refuses it; then the handler
\* checks the key and the file name
translate_audio(r) ==
  /\ serving
  /\ requests[r].pc = "unsent"
  /\ \E conn \in Connections, x_api_key \in Offered, filename \in Filenames :
       /\ \A q \in Requests : requests[q].conn # conn
       /\ LET refused ==
                IF hits >= RATE_LIMIT THEN 429
                ELSE IF verify_api_key(x_api_key) # 0
                THEN verify_api_key(x_api_key)
                ELSE IF filename = <<>> THEN 400
                ELSE IF ~EndsWith(lower(filename), <<".", "w", "a", "v">>)
                THEN 400
                ELSE 0
          IN  /\ hits' = IF hits >= RATE_LIMIT THEN hits ELSE hits + 1
              /\ requests' =
                   [requests EXCEPT ![r] =
                      IF refused = 0
                      THEN [@ EXCEPT !.pc = "reading", !.conn = conn,
                                     !.uploaded = TRUE]
                      ELSE [@ EXCEPT !.pc = "responded",
                                     !.uploaded = TRUE,
                                     !.response = ErrorResponse(refused)]]
              /\ api_log' =
                   api_log \o Events(r, IF refused = 0 THEN <<"request">>
                                        ELSE <<"request", "response">>)
  /\ UNCHANGED <<API_KEY, pipeline, built, serving, streamVars>>

\* the handler giving up the event loop between the stages and the response
translate_audio_read_yielding(r) ==
  \/ /\ requests[r].pc = "reading"
     /\ get_pipeline
     /\ \E out \in translate_audio_chunk(Chunk(<<"1">>)) :
          /\ requests' = [requests EXCEPT ![r] =
                            [@ EXCEPT !.pc = "answering",
                                      !.body = Chunk(<<"1">>),
                                      !.instance = pipeline',
                                      !.result = out.dict,
                                      !.response = Answer(out)]]
          /\ api_log' = api_log \o Events(r, out.stages)
     /\ UNCHANGED <<API_KEY, serving, hits, streamVars>>
  \/ /\ requests[r].pc = "answering"
     /\ requests' = [requests EXCEPT ![r].pc = "responded", ![r].conn = 0]
     /\ api_log' = api_log \o Events(r, <<"response">>)
     /\ UNCHANGED <<API_KEY, pipeline, built, serving, hits, streamVars>>

\* translate_audio from `await file.read()` to its end: the size checks, the
\* chunk run through the pipeline, the response
translate_audio_read(r) ==
  /\ requests[r].pc = "reading"
  /\ \E body \in Bodies :
       IF body.size > MAX_FILE_SIZE_BYTES \/ body.size = 0
       THEN /\ requests' =
                 [requests EXCEPT ![r] =
                    [@ EXCEPT !.pc = "responded", !.conn = 0,
                              !.body = body,
                              !.response =
                                 ErrorResponse(IF body.size = 0 THEN 400
                                               ELSE 413)]]
            /\ api_log' = api_log \o Events(r, <<"response">>)
            /\ UNCHANGED <<pipeline, built>>
       ELSE /\ get_pipeline
            /\ \E out \in translate_audio_chunk(body) :
                 /\ requests' =
                      [requests EXCEPT ![r] =
                         [@ EXCEPT !.pc = "responded", !.conn = 0,
                                   !.body = body,
                                   !.instance = pipeline',
                                   !.result = out.dict,
                                   !.response = Answer(out)]]
                 /\ api_log' =
                      api_log \o Events(r, out.stages \o <<"response">>)
  /\ UNCHANGED <<API_KEY, serving, hits, streamVars>>

ApiInit ==
  /\ Streaming(0, [t \in SttThreads |-> SttIdle])
  /\ \E key \in {None} \cup Keys : Imported(key)

ApiNext ==
  \/ startup_event
  \/ minute_passes
  \/ \E r \in Requests : translate_audio(r)
  \/ \E r \in Requests : translate_audio_read(r)

ApiSpec == ApiInit /\ [][ApiNext]_vars

(***************************************************************************)
(* Properties of the HTTP service, checked under ApiSpec.                  *)
(***************************************************************************)
\* request r, whose file has been read, is answered in this step
Answered(r) ==
  requests[r].pc = "reading" /\ requests'[r].pc = "responded"

\* the events of request r in `log`, in order
RECURSIVE EventsOf(_, _)
EventsOf(r, log) ==
  IF log = <<>> THEN <<>>
  ELSE (IF Head(log)[1] = r THEN <<Head(log)[2]>> ELSE <<>>)
         \o EventsOf(r, Tail(log))

\* event e1 is in api_log before event e2
Before(e1, e2) ==
  \E i, j \in 1 .. Len(api_log) :
    i < j /\ api_log[i] = e1 /\ api_log[j] = e2

StageEvents == {"recognise", "translate", "synthesize"}

\* a bad chunk: a file that is empty, not decodable, decoded at
\* another rate than 16 kHz, or decoded to nothing
BadChunk(body) ==
  \/ body.size = 0
  \/ body.size = 1 /\ (~body.decodes \/ body.sample_rate # 16000
                            \/ body.frames = 0)

\* a bad chunk is answered by one error response without audio and reaches
\* no stage function
BadChunkRefused(r) ==
  /\ requests'[r].response.status = 400
  /\ requests'[r].response.audio = <<>>
  /\ requests'[r].result = NoDict
  /\ EventsOf(r, api_log') = <<"request", "response">>

\* C17: a chunk that is empty, undecodable, not at 16 kHz or without frames
\* gets exactly one error response and no audio, reaches no stage function,
\* and leaves the state of the service unchanged.
C17_BadChunkChangesNothing ==
  [][\A r \in Requests :
       Answered(r) /\ BadChunk(requests'[r].body)
         => /\ BadChunkRefused(r)
            /\ UNCHANGED <<API_KEY, pipeline, built, hits>>]_vars

\* C17 (amended): a chunk that is empty, undecodable, not at 16 kHz or
\* without frames gets exactly one error response and no audio and reaches no
\* stage function; answering it changes nothing of the service but this: a
\* non-empty file makes get_pipeline construct the pipeline when none is
\* loaded yet.
C17_BadChunkOnlyLoads ==
  [][\A r \in Requests :
       Answered(r) /\ BadChunk(requests'[r].body)
         => /\ BadChunkRefused(r)
            /\ UNCHANGED <<API_KEY, hits>>
            /\ \/ UNCHANGED <<pipeline, built>>
               \/ /\ requests'[r].body.size # 0
                  /\ pipeline = 0 /\ built = 0
                  /\ pipeline' = 1 /\ built' = 1]_vars

\* a chunk at 8 kHz was refused, and a valid chunk that came after it was
\* translated
C17_Witness ==
  \E r, q \in Requests :
    /\ requests[r].pc = "responded"
    /\ requests[r].body.sample_rate = 8000
    /\ requests[r].response.status = 400
    /\ Before(<<r, "response">>, <<q, "request">>)
    /\ requests[q].pc = "responded"
    /\ requests[q].body = Chunk(<<"1">>)
    /\ requests[q].response.status = 200

\* C18: when recognition of a valid chunk returns empty text, the placeholder
\* phrase is translated and synthesised, and when both succeed the caller
\* receives the audio with a non-empty russian_text.
C18_SilenceIsAnswered ==
  \A r \in Requests :
    /\ requests[r].pc = "responded"
    /\ requests[r].body = Chunk(<<>>)
    /\ requests[r].result # NoDict
    => /\ requests[r].result.english_text = Placeholder
       /\ EventsOf(r, api_log)
            = <<"request", "recognise", "translate", "synthesize", "response">>
       /\ requests[r].response.status = 200
       /\ requests[r].response.audio = requests[r].result.audio
       /\ requests[r].response.russian_text # <<>>

\* how often `kind` occurs in a sequence of events
RECURSIVE Count(_, _)
Count(kind, events) ==
  IF events = <<>> THEN 0
  ELSE (IF Head(events) = kind THEN 1 ELSE 0) + Count(kind, Tail(events))

\* the response carries the synthesised audio, both texts and the time
Success(req) ==
  /\ req.response.status = 200
  /\ req.result # NoDict
  /\ req.response.audio = req.result.audio
  /\ req.response.audio # <<>>
  /\ req.response.english_text = req.result.english_text
  /\ req.response.english_text # <<>>
  /\ req.response.russian_text = req.result.russian_text
  /\ req.response.russian_text # <<>>
  /\ req.response.processing_time

\* the response is an error and carries nothing else
Failure(req) == \E status \in {400, 413, 500} :
                  req.response = ErrorResponse(status)

\* C19: a request whose file is read gets exactly one outcome, a success
\* response with the audio, both texts and the processing time, or one error
\* response without audio; it gets the error whenever a stage raised or
\* produced nothing; and the handler can always go on to its response.
C19_OneOutcome ==
  /\ [](\A r \in Requests :
          requests[r].pc = "reading" => ENABLED translate_audio_read(r))
  /\ [][\A r \in Requests :
          Answered(r)
            => /\ Count("response", EventsOf(r, api_log')) = 1
               /\ Success(requests'[r]) # Failure(requests'[r])
               /\ EventsOf(r, api_log')
                    # <<"request", "recognise", "translate", "synthesize",
                        "response">>
                    => Failure(requests'[r])
               /\ requests'[r].result = NoDict
                    => Failure(requests'[r])]_vars

\* one request was answered with audio, another with an error after its
\* translation failed
C19_Witness ==
  \E r, q \in Requests :
    /\ requests[r].pc = "responded" /\ Success(requests[r])
    /\ requests[q].pc = "responded" /\ Failure(requests[q])
    /\ EventsOf(q, api_log)
         = <<"request", "recognise", "translate", "response">>

\* C20: two chunks sent back-to-back are not processed in an interleaved way:
\* once a stage function has run for one request, nothing is done for another
\* request until the first one's response is produced; and on one connection
\* a request is not taken before the one before it is answered.
C20_ChunksNotInterleaved ==
  /\ \A i, j \in 1 .. Len(api_log) :
       /\ i < j
       /\ api_log[i][2] \in StageEvents
       /\ api_log[j][1] # api_log[i][1]
       => \E k \in (i + 1) .. (j - 1) :
            api_log[k] = <<api_log[i][1], "response">>
  /\ \A r, q \in Requests :
       r # q /\ requests[r].conn # 0 => requests[r].conn # requests[q].conn
  /\ \A r \in Requests :
       requests[r].conn # 0 <=> requests[r].pc \notin {"unsent", "responded"}

\* two requests were in their handlers at the same time, and both were
\* answered with audio
C20_Witness ==
  \E r, q \in Requests :
    /\ r # q
    /\ Before(<<r, "request">>, <<q, "request">>)
    /\ Before(<<q, "request">>, <<r, "recognise">>)
    /\ Before(<<r, "response">>, <<q, "recognise">>)
    /\ requests[r].response.status = 200
    /\ requests[q].response.status = 200

\* C21: with authentication enabled, a request with a missing or wrong key
\* is rejected before any exchange: its payload has not been read, no stage
\* function has run and no pipeline was constructed for it; with
\* authentication disabled no request is rejected for its key.
C21_RejectedBeforeExchange ==
  \A r \in Requests :
    /\ requests[r].response.status \in {401, 403}
         => /\ API_KEY # None
            /\ ~requests[r].uploaded
            /\ requests[r].body = NoBody
            /\ requests[r].instance = 0
            /\ EventsOf(r, api_log) = <<"request", "response">>
    /\ API_KEY = None => requests[r].response.status \notin {401, 403}

(***************************************************************************)
(* Properties of start(), checked under Spec.                              *)
(***************************************************************************)
\* start() returns in this step, having found the pipeline stopped
Started == lastCall' = "start" /\ lastCall # "start"

\* a stage has a live worker thread and its flag is set
RecognitionRuns == is_recording /\ \E t \in SttThreads : Alive(stt_thr[t])
TranslationRuns == is_translating /\ \E t \in TrThreads : Alive(tr_thr[t])
SynthesisRuns == is_speaking /\ \E t \in TtsThreads : Alive(tts_thr[t])

\* C22: when start() returns on a stopped pipeline, the pipeline is running,
\* capture has begun, and the recognition, translation and synthesis workers
\* each have a live thread.
C22_StartRunsAllWorkers ==
  [][Started => /\ is_running' /\ stream_active'
                /\ RecognitionRuns' /\ TranslationRuns' /\ SynthesisRuns']_vars

\* C22 (amended): when start() returns on a stopped pipeline, the pipeline is
\* running, capture has begun and a new recognition thread is live; start()
\* does not touch the translation and synthesis workers, whose threads are
\* created by the first submission to them.
C22_StartRunsRecognition ==
  [][Started => /\ ~is_running /\ is_running' /\ stream_active'
                /\ RecognitionRuns'
                /\ \E t \in SttThreads :
                     ~Alive(stt_thr[t]) /\ stt_thr'[t].pc = "loop"
                /\ UNCHANGED <<translatorVars, ttsVars>>]_vars

\* start() has returned on a stopped pipeline: it is recording, and neither a
\* translation worker nor a synthesis worker exists
C22_Witness ==
  /\ lastCall = "start" /\ is_running /\ RecognitionRuns
  /\ ~is_translating /\ \A t \in TrThreads : ~Alive(tr_thr[t])
  /\ ~is_speaking /\ \A t \in TtsThreads : ~Alive(tts_thr[t])

\* the live worker threads of each stage
LiveRecognisers == {t \in SttThreads : Alive(stt_thr[t])}
LiveTranslators == {t \in TrThreads : Alive(tr_thr[t])}
LiveSynthesisers == {t \in TtsThreads : Alive(tts_thr[t])}

\* C23: at every moment each stage has at most one live worker thread.
C23_OneWorkerPerStage ==
  /\ Cardinality(LiveRecognisers) <= 1
  /\ Cardinality(LiveTranslators) <= 1
  /\ Cardinality(LiveSynthesisers) <= 1

(***************************************************************************)
(* Properties of the recognition threads, checked under RaceSpec.          *)
(***************************************************************************)
\* the positions of a thread inside _on_speech_to_text, from its check of
\* last_text to its return
InHandler ==
  {"set_last_text", "load_counter", "store_counter", "format_id",
   "queue_translation", "start_translation", "put_translation"}

\* C24: no two executions of _on_speech_to_text overlap, so last_text and
\* request_counter have one writer at a time.
C24_HandlerNeverOverlaps ==
  Cardinality({t \in SttThreads : stt_thr[t].pc \in InHandler}) <= 1

\* C25: every window of captured audio is passed to the recogniser at most
\* once, also when the recogniser or the callback raised for it.
C25_WindowRecognisedOnce ==
  \A b \in DOMAIN recognised : recognised[b] <= 1

(***************************************************************************)
(* Properties of the completion handlers, checked under GateSpec.          *)
(***************************************************************************)
\* the texts on their way to synthesis
TextsForSynthesis ==
  {tts_queue[i].text : i \in 1 .. Len(tts_queue)}
    \cup {tts_tts_queue[i].text : i \in 1 .. Len(tts_tts_queue)}
    \cup {tr_thr[t].translated_text :
            t \in {u \in TrThreads : tr_thr[u].pc \in {"start_tts", "put_tts"}}}
    \cup {tts_thr[t].item.text :
            t \in {u \in TtsThreads : tts_thr[u].pc = "synthesize"}}

\* C26: no empty or whitespace-only translation is given to synthesis, no
\* empty audio buffer is handed to playback, and what is forwarded carries
\* the request id its utterance was submitted with.
C26_NothingEmptyForwarded ==
  /\ \A text \in TextsForSynthesis : strip(text) # <<>>
  /\ \A t \in TtsThreads :
       tts_thr[t].pc = "play" => Len(tts_thr[t].audio_data) > 0
  /\ sub_tts \subseteq sub_translation
  /\ handed_off \subseteq sub_tts
  /\ \A i \in 1 .. Len(tts_tts_queue) :
       [utt |-> tts_tts_queue[i].utt, id |-> tts_tts_queue[i].request_id]
         \in sub_translation

\* of two utterances submitted to translation, one came out empty and went
\* no further, the other was translated, synthesised and handed to playback
C26_Witness ==
  /\ \E x, y \in sub_translation :
       /\ x \in handed_off
       /\ y \notin sub_tts
  /\ translator_translation_queue = <<>> /\ tts_tts_queue = <<>>
  /\ \A t \in TrThreads : tr_thr[t].item = NoItem
  /\ \A t \in TtsThreads : tts_thr[t].item = NoItem

(***************************************************************************)
(* Properties of the shared pipeline of the HTTP service, under ApiSpec.   *)
(***************************************************************************)
\* C27: get_pipeline constructs at most one TranslationPipeline, whatever the
\* order of the startup hook and the requests, and every request that
\* reaches the pipeline uses that instance.
C27_OnePipeline ==
  /\ built <= 1
  /\ pipeline = built
  /\ \A r \in Requests :
       /\ requests[r].instance \in {0, pipeline}
       /\ requests[r].result # NoDict => requests[r].instance = 1

\* two requests were in their handlers at the same time and both ran their
\* chunk on the one pipeline
C27_Witness ==
  \E r, q \in Requests :
    /\ r # q
    /\ Before(<<r, "request">>, <<q, "request">>)
    /\ Before(<<q, "request">>, <<r, "recognise">>)
    /\ Before(<<q, "recognise">>, <<q, "response">>)
    /\ requests[r].instance = 1 /\ requests[q].instance = 1
    /\ built = 1

(***************************************************************************)
(* Properties of the stage functions of the streaming pipeline, checked    *)
(* under FileSpec.                                                         *)
(***************************************************************************)
\* how many callers are inside a stage function of the pipeline's recogniser,
\* translator and synthesiser: worker threads, and the caller of process_file
InTranscribe ==
  Cardinality({t \in SttThreads : stt_thr[t].pc = "transcribe"})
    + (IF file_call.pc = "transcribe_file" THEN 1 ELSE 0)
InTranslate ==
  Cardinality({t \in TrThreads : tr_thr[t].pc = "translate"})
    + (IF file_call.pc = "translate" THEN 1 ELSE 0)
InSynthesize ==
  Cardinality({t \in TtsThreads : tts_thr[t].pc = "synthesize"})
    + (IF file_call.pc = "synthesize" THEN 1 ELSE 0)

\* C28: no two invocations of the same stage function on the same model
\* object are in progress at once, whether they come from a worker thread or
\* from process_file.
C28_StageCallsSerialised ==
  /\ InTranscribe <= 1
  /\ InTranslate <= 1
  /\ InSynthesize <= 1

(***************************************************************************)
(* Properties of request_counter, checked under RaceSpec.                  *)
(***************************************************************************)
\* a handler that accepted its text writes the counter in this step
Counts == \E t \in SttThreads :
            stt_thr[t].pc = "store_counter" /\ stt_thr'[t].pc = "format_id"

\* C29: total_requests is the number of accepted utterances: it goes up by
\* exactly one with every acceptance and is changed by nothing else.
C29_CounterCountsAcceptances ==
  [][IF Counts THEN request_counter' = request_counter + 1
     ELSE request_counter' = request_counter]_vars

(***************************************************************************)
(* The streaming pipeline under fair scheduling: every thread that can     *)
(* take a step eventually takes one (so every stage function returns), and *)
(* a stop() under way goes on to its end.                                  *)
(***************************************************************************)
FairSpec ==
  /\ Spec
  /\ \A t \in SttThreads : WF_vars(SttNext(t))
  /\ \A t \in TrThreads : WF_vars(TrNext(t))
  /\ \A t \in TtsThreads : WF_vars(TtsNext(t))
  /\ WF_vars(stop_translation \/ join_translation \/ stop_tts \/ join_tts
               \/ clear_queues)

\* C30: every item put in the translation worker's or the synthesis worker's
\* queue is eventually taken out of it by a worker thread.
C30_NoItemStranded ==
  /\ (translator_translation_queue # <<>>)
       ~> (translator_translation_queue = <<>>)
  /\ (tts_tts_queue # <<>>) ~> (tts_tts_queue = <<>>)

(***************************************************************************)
(* Properties of the stopped pipeline, checked under Spec.                 *)
(***************************************************************************)
\* stop() has returned, or start() was never called, and start() has not
\* been called since
Stopped == ~is_running /\ mainpc = "idle"

\* a worker thread of the translation or synthesis stage is created
WorkerStarted ==
  \/ \E t \in TrThreads : tr_thr[t].pc = "unborn" /\ tr_thr'[t].pc # "unborn"
  \/ \E t \in TtsThreads : tts_thr[t].pc = "unborn" /\ tts_thr'[t].pc # "unborn"

\* C31: while the pipeline is stopped no request id is issued, no stage
\* worker is started by a late callback, and no audio is handed to playback.
C31_StoppedIsQuiescent ==
  [][Stopped => /\ issued' = issued
                /\ ~WorkerStarted
                /\ handed_off' = handed_off]_vars


(* Properties of what the handler remembers, checked under SequenceSpec. *)
\* the trimmed text of the last candidate accepted before the i-th one, the
\* empty text when there was none
RECURSIVE LastAccepted(_)
LastAccepted(i) ==
  IF i <= 1 THEN <<>>
  ELSE IF gate_log[i - 1].accepted THEN strip(gate_log[i - 1].text)
  ELSE LastAccepted(i - 1)

Refusable(text) == strip(text) = <<>> \/ lower(strip(text)) \in Denylist

\* C32: a candidate is compared with the most recently accepted text only, and
\* rejected candidates do not change that text: A, B, A with A # B, both
\* acceptable, is accepted three times, and in A, "thank you", A and A, "", A
\* the second A is rejected.
C32_ComparesWithLastAccepted ==
  /\ \A i \in 1 .. Len(gate_log) : gate_log[i].last = LastAccepted(i)
  /\ \A i \in 1 .. Len(gate_log) - 2 :
       (gate_log[i].accepted
          /\ strip(gate_log[i + 2].text) = strip(gate_log[i].text))
         => IF Refusable(gate_log[i + 1].text)
            THEN /\ ~gate_log[i + 1].accepted /\ ~Passed(i + 1)
                 /\ ~gate_log[i + 2].accepted /\ ~Passed(i + 2)
            ELSE strip(gate_log[i + 1].text) # strip(gate_log[i].text)
                   => /\ gate_log[i + 1].accepted
                      /\ gate_log[i + 2].accepted
                      /\ stt_thr[1].pc = "caller"
                           => \A k \in i .. i + 2 :
                                \E x \in sub_translation : x.utt = k

\* the sequence a, b, a was delivered and each of the three was accepted, got
\* an id and was submitted to translation
C32_Witness ==
  /\ Len(gate_log) = 3
  /\ gate_log[1].text = <<"a">> /\ gate_log[2].text = <<"b">>
  /\ gate_log[3].text = <<"a">>
  /\ \A k \in 1 .. 3 :
       /\ gate_log[k].accepted
       /\ \E x \in sub_translation : x.utt = k
  /\ stt_thr[1].pc = "caller"


(* Termination of the workers after stop(), checked under FairSpec. *)
\* stop() has just been called on a running pipeline: its first statements
\* have run and the stages are about to be stopped
StopUnderWay == mainpc = "stop_translation"

\* C33: every stage worker thread that is alive when stop() is called
\* eventually exits, also when start() is called again or new items are
\* submitted before the thread looks at its flag again.
C33_StoppedWorkersExit ==
  /\ \A t \in SttThreads :
       (StopUnderWay /\ Alive(stt_thr[t])) ~> ~Alive(stt_thr[t])
  /\ \A t \in TrThreads :
       (StopUnderWay /\ Alive(tr_thr[t])) ~> ~Alive(tr_thr[t])
  /\ \A t \in TtsThreads :
       (StopUnderWay /\ Alive(tts_thr[t])) ~> ~Alive(tts_thr[t])

====
